---- MODULE Spec2Model ----
(***************************************************************************)
(* EngineCoreC/visitors.c: the C bridge between the Engine framework and   *)
(* the Swift runtime.  The bridge is a set of C functions; a build of it   *)
(* is fixed by the preprocessor configuration (TARGET_OS_* and the         *)
(* *_VERSION_MAX_ALLOWED macros).  Callers are threads that enter a        *)
(* function with arguments, run its body and return.                       *)
(***************************************************************************)
EXTENDS Integers, Sequences, FiniteSets, TLC

VARIABLES
    target,      \* the TARGET_OS_* family the translation unit is built for
    defined,     \* the *_VERSION_MAX_ALLOWED macros that are defined
    maxAllowed,  \* the value of each defined macro (0 when not defined)
    pc,          \* each thread's position: "idle", "body", "else", "ret"
    frame,       \* each thread's current call: function and parameters
    invoked,     \* the extern visitor calls made by each thread's current call
    ret,         \* the value each thread's current call returns
    firstResult  \* history: the first value each accessor and the flag returned

vars == <<target, defined, maxAllowed, pc, frame, invoked, ret, firstResult>>

----------------------------------------------------------------------------
(* Bounds of the model *)

NumHandles == 2
NumThreads == 2
MaxMinor == 4

----------------------------------------------------------------------------
(* C values *)

NULL == 0
true == 1
false == 0

Threads == 1..NumThreads

(* Opaque handles supplied by the caller; each kind lives in its own range *)
VisitorHandle(i) == 100 + i
MetadataHandle(i) == 200 + i
ConformanceHandle(i) == 300 + i
ContentHandle(i) == 400 + i

Visitors == {VisitorHandle(i) : i \in 1..NumHandles}
Metadatas == {MetadataHandle(i) : i \in 1..NumHandles}
Conformances == {ConformanceHandle(i) : i \in 1..NumHandles}
Contents == {ContentHandle(i) : i \in 1..NumHandles}

----------------------------------------------------------------------------
(* The protocol descriptor symbols and their accessors *)

Symbols ==
    << "$s7SwiftUI14EnvironmentKeyMp",
       "$s7SwiftUI13_ViewTraitKeyMp",
       "$s7SwiftUI4ViewMp",
       "$s7SwiftUI12ViewModifierMp",
       "$s10EngineCore9MultiViewMp",
       "$s7SwiftUI19UIViewRepresentableMp",
       "$s7SwiftUI29UIViewControllerRepresentableMp",
       "$s7SwiftUI19NSViewRepresentableMp",
       "$s7SwiftUI29NSViewControllerRepresentableMp" >>

(* &symbol: the linker gives every symbol its own non-null address *)
AddressOf(symbol) ==
    1000 + (CHOOSE i \in 1..Len(Symbols) : Symbols[i] = symbol)

(* The descriptor of a protocol the bridge has no accessor for *)
OtherProtocolDescriptor == 1000 + Len(Symbols) + 1

Descriptors == {1000 + i : i \in 1..Len(Symbols)} \cup {OtherProtocolDescriptor}

_EnvironmentKeyProtocolDescriptor == AddressOf("$s7SwiftUI14EnvironmentKeyMp")

_ViewTraitKeyProtocolDescriptor == AddressOf("$s7SwiftUI13_ViewTraitKeyMp")

_ViewProtocolDescriptor_perCall ==
    IF firstResult["_ViewProtocolDescriptor"] = 0 - 1
        THEN AddressOf("$s7SwiftUI4ViewMp")
        ELSE AddressOf("$s7SwiftUI4ViewMp") + 16

_ViewProtocolDescriptor == AddressOf("$s7SwiftUI4ViewMp")

_ViewModifierProtocolDescriptor == AddressOf("$s7SwiftUI12ViewModifierMp")

_MultiViewProtocolDescriptor == AddressOf("$s10EngineCore9MultiViewMp")

_UIViewRepresentableProtocolDescriptor ==
    AddressOf("$s7SwiftUI19UIViewRepresentableMp")

_UIViewControllerRepresentableProtocolDescriptor ==
    AddressOf("$s7SwiftUI29UIViewControllerRepresentableMp")

_NSViewRepresentableProtocolDescriptor ==
    AddressOf("$s7SwiftUI19NSViewRepresentableMp")

_NSViewControllerRepresentableProtocolDescriptor ==
    AddressOf("$s7SwiftUI29NSViewControllerRepresentableMp")

----------------------------------------------------------------------------
(* The build configuration *)

Targets == {"ios", "tv", "vision", "osx", "watch", "other"}

TARGET_OS_IOS == IF target = "ios" THEN 1 ELSE 0
TARGET_OS_TV == IF target = "tv" THEN 1 ELSE 0
TARGET_OS_VISION == IF target = "vision" THEN 1 ELSE 0
TARGET_OS_OSX == IF target = "osx" THEN 1 ELSE 0

(* #if TARGET_OS_IOS || TARGET_OS_TV || TARGET_OS_VISION *)
UIKitBuild == TARGET_OS_IOS # 0 \/ TARGET_OS_TV # 0 \/ TARGET_OS_VISION # 0

(* #if TARGET_OS_OSX *)
AppKitBuild == TARGET_OS_OSX # 0

CommonAccessors ==
    { "_EnvironmentKeyProtocolDescriptor", "_ViewTraitKeyProtocolDescriptor",
      "_ViewProtocolDescriptor", "_ViewModifierProtocolDescriptor",
      "_MultiViewProtocolDescriptor" }

UIKitAccessors ==
    { "_UIViewRepresentableProtocolDescriptor",
      "_UIViewControllerRepresentableProtocolDescriptor" }

AppKitAccessors ==
    { "_NSViewRepresentableProtocolDescriptor",
      "_NSViewControllerRepresentableProtocolDescriptor" }

(* The functions whose results the history keeps *)
ResultOps ==
    CommonAccessors \cup UIKitAccessors \cup AppKitAccessors
        \cup {"c_swift_isOpaqueTypeErasureEnabled"}

(* No call of the function has returned yet *)
NotYet == 0 - 1

(* The accessors compiled into this build *)
Accessors ==
    CommonAccessors
        \cup (IF UIKitBuild THEN UIKitAccessors ELSE {})
        \cup (IF AppKitBuild THEN AppKitAccessors ELSE {})

AccessorValue(name) ==
    CASE name = "_EnvironmentKeyProtocolDescriptor" -> _EnvironmentKeyProtocolDescriptor
      [] name = "_ViewTraitKeyProtocolDescriptor" -> _ViewTraitKeyProtocolDescriptor
      [] name = "_ViewProtocolDescriptor" -> _ViewProtocolDescriptor
      [] name = "_ViewModifierProtocolDescriptor" -> _ViewModifierProtocolDescriptor
      [] name = "_MultiViewProtocolDescriptor" -> _MultiViewProtocolDescriptor
      [] name = "_UIViewRepresentableProtocolDescriptor" ->
            _UIViewRepresentableProtocolDescriptor
      [] name = "_UIViewControllerRepresentableProtocolDescriptor" ->
            _UIViewControllerRepresentableProtocolDescriptor
      [] name = "_NSViewRepresentableProtocolDescriptor" ->
            _NSViewRepresentableProtocolDescriptor
      [] name = "_NSViewControllerRepresentableProtocolDescriptor" ->
            _NSViewControllerRepresentableProtocolDescriptor

----------------------------------------------------------------------------
(* The platform version macros and the SDK's version constants *)

VersionMacros ==
    << "__IPHONE_OS_VERSION_MAX_ALLOWED",
       "__WATCH_OS_VERSION_MAX_ALLOWED",
       "__TV_OS_VERSION_MAX_ALLOWED",
       "__VISION_OS_VERSION_MAX_ALLOWED",
       "__MAC_OS_X_VERSION_MAX_ALLOWED" >>

MacroNames == {VersionMacros[i] : i \in 1..Len(VersionMacros)}

(* The SDK encodes version major.minor as major * 10000 + minor * 100 *)
Version(major, minor) == major * 10000 + minor * 100

(* The version constants the #if lines name, at the values the SDK's
   AvailabilityVersions.h gives them *)
__IPHONE_18_0 == 180000
__IPHONE_18_4 == 180400
__WATCHOS_11_0 == 110000
__WATCHOS_11_4 == 110400
__TVOS_18_0 == 180000
__TVOS_18_4 == 180400
__VISIONOS_2_0 == 20000
__VISIONOS_2_4 == 20400
__MAC_15_0 == 150000
__MAC_15_4 == 150400

(* The major version around which each macro's values are enumerated *)
SampleMajor(macro) ==
    CASE macro = "__IPHONE_OS_VERSION_MAX_ALLOWED" -> 18
      [] macro = "__WATCH_OS_VERSION_MAX_ALLOWED" -> 11
      [] macro = "__TV_OS_VERSION_MAX_ALLOWED" -> 18
      [] macro = "__VISION_OS_VERSION_MAX_ALLOWED" -> 2
      [] macro = "__MAC_OS_X_VERSION_MAX_ALLOWED" -> 15

(* The values a defined macro takes in the model: the first release of the
   previous and of the next major version and the releases major.0 ..
   major.MaxMinor *)
SampleVersions(macro) ==
    {Version(SampleMajor(macro) - 1, 0), Version(SampleMajor(macro) + 1, 0)}
        \cup {Version(SampleMajor(macro), n) : n \in 0..MaxMinor}

(* A macro is either not defined (0 here) or has one of its sample values *)
MacroSettings(macro) == {0} \cup SampleVersions(macro)

(* The macros a real single-platform SDK build defines for each target:
   the target's own macro, at the first release of the sampled major *)
NativeMacro(tgt) ==
    CASE tgt = "ios" -> {"__IPHONE_OS_VERSION_MAX_ALLOWED"}
      [] tgt = "watch" -> {"__WATCH_OS_VERSION_MAX_ALLOWED"}
      [] tgt = "tv" -> {"__TV_OS_VERSION_MAX_ALLOWED"}
      [] tgt = "vision" -> {"__VISION_OS_VERSION_MAX_ALLOWED"}
      [] tgt = "osx" -> {"__MAC_OS_X_VERSION_MAX_ALLOWED"}
      [] OTHER -> {}

----------------------------------------------------------------------------
(* c_swift_isOpaqueTypeErasureEnabled: one #if/#elif/#else group per macro *)

IPhoneBranch_gt(v) ==
    IF v >= __IPHONE_18_4 THEN false
    ELSE IF v > __IPHONE_18_0 THEN true
    ELSE false

IPhoneBranch(v) ==
    IF v >= __IPHONE_18_4 THEN false
    ELSE IF v >= __IPHONE_18_0 THEN true
    ELSE false

WatchBranch(v) ==
    IF v >= __WATCHOS_11_4 THEN false
    ELSE IF v >= __WATCHOS_11_0 THEN true
    ELSE false

TVBranch(v) ==
    IF v >= __TVOS_18_4 THEN false
    ELSE IF v >= __TVOS_18_0 THEN true
    ELSE false

VisionBranch(v) ==
    IF v >= __VISIONOS_2_4 THEN false
    ELSE IF v >= __VISIONOS_2_0 THEN true
    ELSE false

MacBranch_open(v) ==
    IF v >= __MAC_15_0 THEN true
    ELSE false

MacBranch(v) ==
    IF v >= __MAC_15_4 THEN false
    ELSE IF v >= __MAC_15_0 THEN true
    ELSE false

(* The #if defined(...) / #elif defined(...) chain: the first macro that is
   defined selects the group that is compiled *)
IsOpaqueTypeErasureEnabled(def, val) ==
    IF "__IPHONE_OS_VERSION_MAX_ALLOWED" \in def
        THEN IPhoneBranch(val["__IPHONE_OS_VERSION_MAX_ALLOWED"])
    ELSE IF "__WATCH_OS_VERSION_MAX_ALLOWED" \in def
        THEN WatchBranch(val["__WATCH_OS_VERSION_MAX_ALLOWED"])
    ELSE IF "__TV_OS_VERSION_MAX_ALLOWED" \in def
        THEN TVBranch(val["__TV_OS_VERSION_MAX_ALLOWED"])
    ELSE IF "__VISION_OS_VERSION_MAX_ALLOWED" \in def
        THEN VisionBranch(val["__VISION_OS_VERSION_MAX_ALLOWED"])
    ELSE IF "__MAC_OS_X_VERSION_MAX_ALLOWED" \in def
        THEN MacBranch(val["__MAC_OS_X_VERSION_MAX_ALLOWED"])
    ELSE false

----------------------------------------------------------------------------
(* The Swift runtime behind the extern declarations: read-only tables *)

(* Whether the type behind a metadata handle conforms to the protocol
   behind a descriptor, as recorded in the runtime's conformance table *)
TypeConforms(metadata, descriptor) == (metadata + descriptor) % 2 = 0

(* The witness table the runtime keeps for a conforming pair *)
WitnessTable(metadata, descriptor) ==
    5000 + 100 * (metadata - 200) + (descriptor - 1000)

swift_conformsToProtocol(metadata, descriptor) ==
    IF TypeConforms(metadata, descriptor)
        THEN WitnessTable(metadata, descriptor)
        ELSE NULL

swift_isClassType(metadata) == IF metadata % 2 = 1 THEN true ELSE false

----------------------------------------------------------------------------
(* A call in progress *)

NoFrame ==
    [op |-> "none", content |-> NULL, visitor |-> NULL, metadata |-> NULL,
     conformance |-> NULL, descriptor |-> NULL]

(* The parameters of thread t's call: each call has its own *)
ParamContent(t) == frame[t].content

ParamVisitor(t) == frame[t].visitor

ParamMetadata(t) == frame[t].metadata

ParamConformance(t) == frame[t].conformance

ParamDescriptor_static(t) == frame[(t % NumThreads) + 1].descriptor

ParamDescriptor(t) == frame[t].descriptor

(* A call to one of the extern _swift_visit_* functions *)
Invocation(fn, args) == [fn |-> fn, args |-> args]

----------------------------------------------------------------------------
(* The calls a caller can make *)

VisitOps ==
    {"c_visit_EnvironmentKey", "c_visit_ViewTraitKey", "c_visit_ViewModifier"}

VisitFrames(visitors, metadatas, conformances) ==
    [op : VisitOps, content : {NULL}, visitor : visitors, metadata : metadatas,
     conformance : conformances, descriptor : {NULL}]

ViewFrames(visitors, metadatas, conformances, descriptors) ==
    [op : {"c_visit_View"}, content : {NULL}, visitor : visitors,
     metadata : metadatas, conformance : conformances, descriptor : descriptors]

MultiViewFrames(contents, visitors, metadatas, conformances) ==
    [op : {"c_visit_MultiView"}, content : contents, visitor : visitors,
     metadata : metadatas, conformance : conformances, descriptor : {NULL}]

ConformsFrames(metadatas, descriptors) ==
    [op : {"c_swift_conformsToProtocol"}, content : {NULL}, visitor : {NULL},
     metadata : metadatas, conformance : {NULL}, descriptor : descriptors]

IsClassFrames(metadatas) ==
    [op : {"c_swift_isClassType"}, content : {NULL}, visitor : {NULL},
     metadata : metadatas, conformance : {NULL}, descriptor : {NULL}]

NoArgFrames(ops) ==
    [op : ops, content : {NULL}, visitor : {NULL}, metadata : {NULL},
     conformance : {NULL}, descriptor : {NULL}]

(* Every call of every function of this build *)
AllFrames ==
    VisitFrames(Visitors, Metadatas, Conformances)
        \cup ViewFrames(Visitors, Metadatas, Conformances, Descriptors)
        \cup MultiViewFrames(Contents, Visitors, Metadatas, Conformances)
        \cup ConformsFrames(Metadatas, Descriptors)
        \cup IsClassFrames(Metadatas)
        \cup NoArgFrames(Accessors \cup {"c_swift_isOpaqueTypeErasureEnabled"})

(* The calls of thread t when several threads call at once: each thread
   passes handles of its own *)
ThreadFrames(t) ==
    VisitFrames({VisitorHandle(t)}, {MetadataHandle(t)}, {ConformanceHandle(t)})
        \cup ViewFrames({VisitorHandle(t)}, {MetadataHandle(t)},
                        {ConformanceHandle(t)}, Descriptors)
        \cup MultiViewFrames({ContentHandle(t)}, {VisitorHandle(t)},
                             {MetadataHandle(t)}, {ConformanceHandle(t)})
        \cup ConformsFrames({MetadataHandle(t)}, Descriptors)
        \cup IsClassFrames({MetadataHandle(t)})

(* A thread enters a function: its parameters are bound *)
Call(t, f) ==
    /\ pc[t] = "idle"
    /\ pc' = [pc EXCEPT ![t] = "body"]
    /\ frame' = [frame EXCEPT ![t] = f]
    /\ invoked' = [invoked EXCEPT ![t] = <<>>]
    /\ ret' = [ret EXCEPT ![t] = NULL]
    /\ UNCHANGED <<target, defined, maxAllowed, firstResult>>

(* The function returns to its caller *)
Return(t) ==
    /\ pc[t] = "ret"
    /\ pc' = [pc EXCEPT ![t] = "idle"]
    /\ firstResult' =
          IF frame[t].op \in ResultOps /\ firstResult[frame[t].op] = NotYet
              THEN [firstResult EXCEPT ![frame[t].op] = ret[t]]
              ELSE firstResult
    /\ frame' = [frame EXCEPT ![t] = NoFrame]
    /\ invoked' = [invoked EXCEPT ![t] = <<>>]
    /\ ret' = [ret EXCEPT ![t] = NULL]
    /\ UNCHANGED <<target, defined, maxAllowed>>

(* Thread t, in the body of function op, calls the externs in calls, returns
   value and moves to position next *)
Step(t, op, calls, value, next) ==
    /\ pc[t] = "body"
    /\ frame[t].op = op
    /\ invoked' = [invoked EXCEPT ![t] = invoked[t] \o calls]
    /\ ret' = [ret EXCEPT ![t] = value]
    /\ pc' = [pc EXCEPT ![t] = next]
    /\ UNCHANGED <<target, defined, maxAllowed, frame, firstResult>>

----------------------------------------------------------------------------
(* The forwarding functions *)

EnvironmentKeyCall_swapped(t) ==
    Invocation("_swift_visit_EnvironmentKey",
               <<ParamVisitor(t), ParamMetadata(t), ParamConformance(t),
                 ParamMetadata(t)>>)

EnvironmentKeyCall(t) ==
    Invocation("_swift_visit_EnvironmentKey",
               <<ParamVisitor(t), ParamMetadata(t), ParamMetadata(t),
                 ParamConformance(t)>>)

ViewTraitKeyCall(t) ==
    Invocation("_swift_visit_ViewTraitKey",
               <<ParamVisitor(t), ParamMetadata(t), ParamMetadata(t),
                 ParamConformance(t)>>)

ViewModifierCall(t) ==
    Invocation("_swift_visit_ViewModifier",
               <<ParamVisitor(t), ParamMetadata(t), ParamMetadata(t),
                 ParamConformance(t)>>)

MultiViewCall_visitorFirst(t) ==
    Invocation("_swift_visit_MultiView",
               <<ParamVisitor(t), ParamContent(t), ParamMetadata(t),
                 ParamMetadata(t), ParamConformance(t)>>)

MultiViewCall(t) ==
    Invocation("_swift_visit_MultiView",
               <<ParamContent(t), ParamVisitor(t), ParamMetadata(t),
                 ParamMetadata(t), ParamConformance(t)>>)

c_visit_EnvironmentKey(t) ==
    Step(t, "c_visit_EnvironmentKey", <<EnvironmentKeyCall(t)>>, NULL, "ret")

c_visit_ViewTraitKey(t) ==
    Step(t, "c_visit_ViewTraitKey", <<ViewTraitKeyCall(t)>>, NULL, "ret")

c_visit_ViewModifier(t) ==
    Step(t, "c_visit_ViewModifier", <<ViewModifierCall(t)>>, NULL, "ret")

c_visit_MultiView(t) ==
    Step(t, "c_visit_MultiView", <<MultiViewCall(t)>>, NULL, "ret")

----------------------------------------------------------------------------
(* c_visit_View *)

(* The arguments every branch of c_visit_View passes on *)
ViewArgs(t) ==
    <<ParamVisitor(t), ParamMetadata(t), ParamMetadata(t), ParamConformance(t)>>

IfBranch_thenView(descriptor) ==
    IF UIKitBuild THEN
        IF descriptor = _UIViewRepresentableProtocolDescriptor
            THEN <<"_swift_visit_UIViewRepresentable", "_swift_visit_View">>
            ELSE <<>>
    ELSE IF AppKitBuild THEN
        IF descriptor = _NSViewRepresentableProtocolDescriptor
            THEN <<"_swift_visit_NSViewRepresentable", "_swift_visit_View">>
            ELSE <<>>
    ELSE <<"_swift_visit_View">>

IfBranch_viewDescriptor(descriptor) ==
    IF UIKitBuild THEN
        IF descriptor = _ViewProtocolDescriptor
            THEN <<"_swift_visit_UIViewRepresentable">>
            ELSE <<>>
    ELSE IF AppKitBuild THEN
        IF descriptor = _NSViewRepresentableProtocolDescriptor
            THEN <<"_swift_visit_NSViewRepresentable">>
            ELSE <<>>
    ELSE <<"_swift_visit_View">>

(* The first if of the group compiled for this build: the externs it calls,
   or none when control passes to the else-if *)
IfBranch(descriptor) ==
    IF UIKitBuild THEN
        IF descriptor = _UIViewRepresentableProtocolDescriptor
            THEN <<"_swift_visit_UIViewRepresentable">>
            ELSE <<>>
    ELSE IF AppKitBuild THEN
        IF descriptor = _NSViewRepresentableProtocolDescriptor
            THEN <<"_swift_visit_NSViewRepresentable">>
            ELSE <<>>
    ELSE <<"_swift_visit_View">>

ElseIfBranch_noController(descriptor) ==
    <<"_swift_visit_View">>

(* The else-if and the final else of the group compiled for this build *)
ElseIfBranch(descriptor) ==
    IF UIKitBuild THEN
        IF descriptor = _UIViewControllerRepresentableProtocolDescriptor
            THEN <<"_swift_visit_UIViewControllerRepresentable">>
            ELSE <<"_swift_visit_View">>
    ELSE
        IF descriptor = _NSViewControllerRepresentableProtocolDescriptor
            THEN <<"_swift_visit_NSViewControllerRepresentable">>
            ELSE <<"_swift_visit_View">>

(* The calls to the externs named in fns, each with the view arguments *)
ViewCalls(t, fns) == [i \in 1..Len(fns) |-> Invocation(fns[i], ViewArgs(t))]

c_visit_View_if(t) ==
    /\ pc[t] = "body"
    /\ frame[t].op = "c_visit_View"
    /\ LET fns == IfBranch(ParamDescriptor(t)) IN
         /\ invoked' = [invoked EXCEPT ![t] = invoked[t] \o ViewCalls(t, fns)]
         /\ pc' = [pc EXCEPT ![t] = IF fns = <<>> THEN "else" ELSE "ret"]
    /\ UNCHANGED <<target, defined, maxAllowed, frame, ret, firstResult>>

c_visit_View_else(t) ==
    /\ pc[t] = "else"
    /\ frame[t].op = "c_visit_View"
    /\ LET fns == ElseIfBranch(ParamDescriptor(t)) IN
         invoked' = [invoked EXCEPT ![t] = invoked[t] \o ViewCalls(t, fns)]
    /\ pc' = [pc EXCEPT ![t] = "ret"]
    /\ UNCHANGED <<target, defined, maxAllowed, frame, ret, firstResult>>

----------------------------------------------------------------------------
(* The runtime queries, the feature flag and the accessors *)

ConformsResult_swappedArgs(t) ==
    swift_conformsToProtocol(ParamDescriptor(t), ParamMetadata(t))

ConformsResult(t) ==
    swift_conformsToProtocol(ParamMetadata(t), ParamDescriptor(t))

c_swift_conformsToProtocol(t) ==
    Step(t, "c_swift_conformsToProtocol", <<>>, ConformsResult(t), "ret")

c_swift_isClassType(t) ==
    Step(t, "c_swift_isClassType", <<>>, swift_isClassType(ParamMetadata(t)), "ret")

c_swift_isOpaqueTypeErasureEnabled(t) ==
    Step(t, "c_swift_isOpaqueTypeErasureEnabled", <<>>,
         IsOpaqueTypeErasureEnabled(defined, maxAllowed), "ret")

DescriptorAccessor(t) ==
    /\ frame[t].op \in Accessors
    /\ Step(t, frame[t].op, <<>>, AccessorValue(frame[t].op), "ret")

----------------------------------------------------------------------------
(* Specifications *)

Idle ==
    /\ pc = [t \in Threads |-> "idle"]
    /\ frame = [t \in Threads |-> NoFrame]
    /\ invoked = [t \in Threads |-> <<>>]
    /\ ret = [t \in Threads |-> NULL]
    /\ firstResult = [op \in ResultOps |-> NotYet]

(* One caller, every function, every build target; the version macros are
   those of the target's own SDK *)
Init ==
    /\ target \in Targets
    /\ defined = NativeMacro(target)
    /\ maxAllowed = [m \in MacroNames |->
                        IF m \in defined THEN Version(SampleMajor(m), 0) ELSE 0]
    /\ Idle

Body(t) ==
    \/ c_visit_EnvironmentKey(t)
    \/ c_visit_ViewTraitKey(t)
    \/ c_visit_ViewModifier(t)
    \/ c_visit_MultiView(t)
    \/ c_visit_View_if(t)
    \/ c_visit_View_else(t)
    \/ c_swift_conformsToProtocol(t)
    \/ c_swift_isClassType(t)

Next ==
    \/ \E f \in AllFrames : Call(1, f)
    \/ Body(1)
    \/ c_swift_isOpaqueTypeErasureEnabled(1)
    \/ DescriptorAccessor(1)
    \/ Return(1)

Spec == Init /\ [][Next]_vars

(* Several callers at once, each in a function of lines 70-134 *)
NextThreads ==
    \E t \in Threads :
        \/ \E f \in ThreadFrames(t) : Call(t, f)
        \/ Body(t)
        \/ Return(t)

SpecThreads == Init /\ [][NextThreads]_vars

(* Every configuration of the version macros, one caller of the flag *)
InitBuild ==
    /\ target \in Targets
    /\ \E vs \in MacroSettings(VersionMacros[1]) \X MacroSettings(VersionMacros[2])
                  \X MacroSettings(VersionMacros[3]) \X MacroSettings(VersionMacros[4])
                  \X MacroSettings(VersionMacros[5]) :
          maxAllowed = [m \in MacroNames |->
                           vs[CHOOSE i \in 1..Len(VersionMacros) : VersionMacros[i] = m]]
    /\ defined = {m \in MacroNames : maxAllowed[m] # 0}
    /\ Idle

NextBuild ==
    \/ \E f \in NoArgFrames({"c_swift_isOpaqueTypeErasureEnabled"}) : Call(1, f)
    \/ c_swift_isOpaqueTypeErasureEnabled(1)
    \/ Return(1)

SpecBuild == InitBuild /\ [][NextBuild]_vars

----------------------------------------------------------------------------
(* What one call does when no other call is in progress: the externs it
   calls, in order, and the value it returns *)

RunAlone(f) ==
    LET args == <<f.visitor, f.metadata, f.metadata, f.conformance>>
        first == IfBranch(f.descriptor)
        fns == IF first # <<>> THEN first ELSE ElseIfBranch(f.descriptor)
    IN  CASE f.op = "c_visit_EnvironmentKey" ->
                [calls |-> <<Invocation("_swift_visit_EnvironmentKey", args)>>,
                 value |-> NULL]
          [] f.op = "c_visit_ViewTraitKey" ->
                [calls |-> <<Invocation("_swift_visit_ViewTraitKey", args)>>,
                 value |-> NULL]
          [] f.op = "c_visit_ViewModifier" ->
                [calls |-> <<Invocation("_swift_visit_ViewModifier", args)>>,
                 value |-> NULL]
          [] f.op = "c_visit_MultiView" ->
                [calls |-> <<Invocation("_swift_visit_MultiView",
                                        <<f.content>> \o args)>>,
                 value |-> NULL]
          [] f.op = "c_visit_View" ->
                [calls |-> [i \in 1..Len(fns) |-> Invocation(fns[i], args)],
                 value |-> NULL]
          [] f.op = "c_swift_conformsToProtocol" ->
                [calls |-> <<>>,
                 value |-> swift_conformsToProtocol(f.metadata, f.descriptor)]
          [] f.op = "c_swift_isClassType" ->
                [calls |-> <<>>, value |-> swift_isClassType(f.metadata)]

----------------------------------------------------------------------------
(* Properties *)

(* Thread t has run function op to its return *)
Returning(t, op) == pc[t] = "ret" /\ frame[t].op = op

(* The names of the externs thread t's current call has called, in order *)
Visited(t) == [i \in 1..Len(invoked[t]) |-> invoked[t][i].fn]

UIKitTargets == {"ios", "tv", "vision"}

UIKitDescriptors ==
    { _UIViewRepresentableProtocolDescriptor,
      _UIViewControllerRepresentableProtocolDescriptor }

AppKitDescriptors ==
    { _NSViewRepresentableProtocolDescriptor,
      _NSViewControllerRepresentableProtocolDescriptor }

(* The representable descriptors the build knows *)
KnownRepresentables ==
    IF target \in UIKitTargets THEN UIKitDescriptors
    ELSE IF target = "osx" THEN AppKitDescriptors
    ELSE {}

(* C1: on an iOS/tvOS/visionOS build a c_visit_View call whose descriptor is
   the UIViewRepresentable descriptor calls the UIViewRepresentable visitor
   and nothing else; on every build a call whose descriptor is none of the
   representable descriptors the build knows calls the generic View visitor
   and nothing else. *)
C1_ViewDispatch ==
    \A t \in Threads :
        Returning(t, "c_visit_View") =>
            /\ (target \in UIKitTargets
                  /\ frame[t].descriptor = _UIViewRepresentableProtocolDescriptor)
                 => Visited(t) = <<"_swift_visit_UIViewRepresentable">>
            /\ frame[t].descriptor \notin KnownRepresentables
                 => Visited(t) = <<"_swift_visit_View">>

C1_Witness ==
    \E t \in Threads :
        /\ Returning(t, "c_visit_View")
        /\ target = "tv"
        /\ frame[t].descriptor = _UIViewRepresentableProtocolDescriptor
        /\ Visited(t) = <<"_swift_visit_UIViewRepresentable">>

(* C2: on every build and for every descriptor a c_visit_View call calls
   exactly one visitor exactly once: never the generic View visitor together
   with a representable visitor, and it never returns without a call. *)
C2_ExactlyOneVisitor ==
    \A t \in Threads :
        frame[t].op = "c_visit_View" =>
            /\ Len(invoked[t]) <= 1
            /\ pc[t] = "ret" => Len(invoked[t]) = 1

C2_Witness ==
    \E t \in Threads :
        /\ Returning(t, "c_visit_View")
        /\ target = "osx"
        /\ frame[t].descriptor = _NSViewRepresentableProtocolDescriptor
        /\ Len(invoked[t]) = 1

(* C3: the priority order of c_visit_View: the UIViewControllerRepresentable
   descriptor goes to its visitor on iOS/tvOS/visionOS builds, the
   NSViewRepresentable and NSViewControllerRepresentable descriptors go to
   their visitors on macOS builds, and a representable descriptor the build
   does not know goes to the generic View visitor. *)
C3_PriorityOrder ==
    \A t \in Threads :
        Returning(t, "c_visit_View") =>
            LET d == frame[t].descriptor IN
            /\ (target \in UIKitTargets
                  /\ d = _UIViewControllerRepresentableProtocolDescriptor)
                 => Visited(t) = <<"_swift_visit_UIViewControllerRepresentable">>
            /\ (target = "osx" /\ d = _NSViewRepresentableProtocolDescriptor)
                 => Visited(t) = <<"_swift_visit_NSViewRepresentable">>
            /\ (target = "osx"
                  /\ d = _NSViewControllerRepresentableProtocolDescriptor)
                 => Visited(t) = <<"_swift_visit_NSViewControllerRepresentable">>
            /\ (d \in (UIKitDescriptors \cup AppKitDescriptors)
                        \ KnownRepresentables)
                 => Visited(t) = <<"_swift_visit_View">>

C3_Witness ==
    \E t \in Threads :
        /\ Returning(t, "c_visit_View")
        /\ target = "osx"
        /\ frame[t].descriptor = _NSViewControllerRepresentableProtocolDescriptor
        /\ Visited(t) = <<"_swift_visit_NSViewControllerRepresentable">>

FlagOp == "c_swift_isOpaqueTypeErasureEnabled"

(* C4: the flag is true on a build whose iOS maximum allowed version is
   18.0, false on one whose iOS maximum allowed version is 18.4 or later,
   and false on a build that defines no platform version macro. *)
C4_FlagExamples ==
    \A t \in Threads :
        Returning(t, FlagOp) =>
            LET ios == "__IPHONE_OS_VERSION_MAX_ALLOWED" IN
            /\ (ios \in defined /\ maxAllowed[ios] = Version(18, 0))
                 => ret[t] = true
            /\ (ios \in defined /\ maxAllowed[ios] >= Version(18, 4))
                 => ret[t] = false
            /\ defined = {} => ret[t] = false

C4_Witness ==
    \E t \in Threads :
        /\ Returning(t, FlagOp)
        /\ "__IPHONE_OS_VERSION_MAX_ALLOWED" \in defined
        /\ maxAllowed["__IPHONE_OS_VERSION_MAX_ALLOWED"] = Version(18, 0)
        /\ ret[t] = true

(* The window lo <= v < hi of each platform's macro *)
InWindow(macro, v) ==
    CASE macro = "__IPHONE_OS_VERSION_MAX_ALLOWED" ->
            Version(18, 0) <= v /\ v < Version(18, 4)
      [] macro = "__WATCH_OS_VERSION_MAX_ALLOWED" ->
            Version(11, 0) <= v /\ v < Version(11, 4)
      [] macro = "__TV_OS_VERSION_MAX_ALLOWED" ->
            Version(18, 0) <= v /\ v < Version(18, 4)
      [] macro = "__VISION_OS_VERSION_MAX_ALLOWED" ->
            Version(2, 0) <= v /\ v < Version(2, 4)
      [] macro = "__MAC_OS_X_VERSION_MAX_ALLOWED" ->
            Version(15, 0) <= v /\ v < Version(15, 4)

(* The result is the one the first call gave *)
FlagConstant(t) ==
    firstResult[FlagOp] # NotYet => ret[t] = firstResult[FlagOp]

(* C5 as stated: for each platform family whose macro the build defines, the
   flag is true exactly when that platform's maximum allowed version lies in
   the platform's window, and the result does not vary across calls. *)
C5_EveryPlatformWindow ==
    \A t \in Threads :
        Returning(t, FlagOp) =>
            /\ \A m \in defined :
                  (ret[t] = true) <=> InWindow(m, maxAllowed[m])
            /\ FlagConstant(t)

(* The first macro of the #if/#elif chain that the build defines *)
FirstDefined ==
    VersionMacros[CHOOSE i \in 1..Len(VersionMacros) :
                      /\ VersionMacros[i] \in defined
                      /\ \A j \in 1..(i - 1) : VersionMacros[j] \notin defined]

(* C5, amended: the platform that decides is the first one, in the order
   iOS, watchOS, tvOS, visionOS, macOS, whose macro the build defines (on a
   build that defines one macro, that platform): the flag is true exactly
   when that platform's maximum allowed version lies in its window, it is
   false when no macro is defined, and the result does not vary across
   calls. *)
C5_FirstDefinedWindow ==
    \A t \in Threads :
        Returning(t, FlagOp) =>
            /\ ret[t] \in {true, false}
            /\ (ret[t] = true) <=>
                  (defined # {} /\ InWindow(FirstDefined, maxAllowed[FirstDefined]))
            /\ FlagConstant(t)

C5_Witness ==
    \E t \in Threads :
        /\ Returning(t, FlagOp)
        /\ defined = {"__TV_OS_VERSION_MAX_ALLOWED", "__MAC_OS_X_VERSION_MAX_ALLOWED"}
        /\ maxAllowed["__TV_OS_VERSION_MAX_ALLOWED"] = Version(18, 3)
        /\ maxAllowed["__MAC_OS_X_VERSION_MAX_ALLOWED"] = Version(15, 4)
        /\ ret[t] = true
        /\ firstResult[FlagOp] = true

(* The extern each forwarding function calls *)
Underlying(op) ==
    CASE op = "c_visit_EnvironmentKey" -> "_swift_visit_EnvironmentKey"
      [] op = "c_visit_ViewTraitKey" -> "_swift_visit_ViewTraitKey"
      [] op = "c_visit_ViewModifier" -> "_swift_visit_ViewModifier"

(* C6: c_visit_EnvironmentKey, c_visit_ViewTraitKey and c_visit_ViewModifier
   each make exactly one call, to their own extern, with the arguments
   (visitor, metadata, metadata, conformance). *)
C6_Forwarders ==
    \A t \in Threads : \A op \in VisitOps :
        Returning(t, op) =>
            invoked[t] =
                << [fn |-> Underlying(op),
                    args |-> <<frame[t].visitor, frame[t].metadata,
                               frame[t].metadata, frame[t].conformance>>] >>

C6_Witness ==
    \E t \in Threads :
        /\ Returning(t, "c_visit_EnvironmentKey")
        /\ frame[t].visitor = VisitorHandle(1)
        /\ frame[t].metadata = MetadataHandle(2)
        /\ frame[t].conformance = ConformanceHandle(1)
        /\ Len(invoked[t]) = 1

(* C7: c_visit_MultiView makes exactly one call, to _swift_visit_MultiView,
   with the arguments (content, visitor, metadata, metadata, conformance). *)
C7_MultiView ==
    \A t \in Threads :
        Returning(t, "c_visit_MultiView") =>
            invoked[t] =
                << [fn |-> "_swift_visit_MultiView",
                    args |-> <<frame[t].content, frame[t].visitor,
                               frame[t].metadata, frame[t].metadata,
                               frame[t].conformance>>] >>

C7_Witness ==
    \E t \in Threads :
        /\ Returning(t, "c_visit_MultiView")
        /\ frame[t].content = ContentHandle(2)
        /\ frame[t].visitor = VisitorHandle(1)
        /\ Len(invoked[t]) = 1

(* C8: c_swift_conformsToProtocol returns the runtime's answer: NULL when
   the type does not conform to the protocol and the conformance record when
   it does; it calls no visitor. *)
C8_Conforms ==
    \A t \in Threads :
        /\ frame[t].op = "c_swift_conformsToProtocol" => invoked[t] = <<>>
        /\ Returning(t, "c_swift_conformsToProtocol") =>
              /\ ret[t] = swift_conformsToProtocol(frame[t].metadata,
                                                   frame[t].descriptor)
              /\ (ret[t] = NULL) <=>
                    ~TypeConforms(frame[t].metadata, frame[t].descriptor)

C8_Witness ==
    \E t \in Threads :
        /\ Returning(t, "c_swift_conformsToProtocol")
        /\ TypeConforms(frame[t].metadata, frame[t].descriptor)
        /\ ret[t] # NULL

(* C9: every descriptor accessor of the build returns a non-null address,
   the same on every call, whatever other functions ran in between. *)
C9_StableDescriptors ==
    \A t \in Threads : \A a \in Accessors :
        Returning(t, a) =>
            /\ ret[t] # NULL
            /\ firstResult[a] # NotYet => ret[t] = firstResult[a]

C9_Witness ==
    \E t \in Threads :
        /\ Returning(t, "_UIViewRepresentableProtocolDescriptor")
        /\ firstResult["_UIViewRepresentableProtocolDescriptor"] = ret[t]
        /\ firstResult["_ViewProtocolDescriptor"] # NotYet
        /\ firstResult[FlagOp] # NotYet

(* C10: when several threads call at once, every call that returns has
   called the externs, with the arguments, and returns the value, that the
   same call makes and returns when it runs alone. *)
C10_Independent ==
    \A t \in Threads :
        pc[t] = "ret" =>
            /\ invoked[t] = RunAlone(frame[t]).calls
            /\ ret[t] = RunAlone(frame[t]).value

C10_Witness ==
    \E t, u \in Threads :
        /\ t # u
        /\ Returning(t, "c_visit_View")
        /\ frame[u].op = "c_visit_View"
        /\ pc[u] = "else"
        /\ frame[t].descriptor = _UIViewRepresentableProtocolDescriptor
        /\ frame[u].descriptor = _UIViewControllerRepresentableProtocolDescriptor
        /\ Visited(t) = <<"_swift_visit_UIViewRepresentable">>

====
